---- MODULE Spec2Model ----
(***************************************************************************)
(* The DraggableList widget: a list of items that can be grouped by drag   *)
(* and drop through a confirmation dialog and a name dialog, and           *)
(* ungrouped again.  Every action is one event handler of the component,   *)
(* run to completion with all the state updates it queues.                 *)
(***************************************************************************)
EXTENDS Integers, Sequences, FiniteSets, TLC

VARIABLES
    items,            \* useState<Item[]>: sequence of [id, content]
    groupedItems,     \* useState<GroupedItems>: group id -> sequence of member ids
    activeId,         \* useState<string | null>
    showGroupDialog,  \* useState(false)
    showNameDialog,   \* useState(false)
    itemToGroup,      \* useState<ItemToGroup | null>: <<>> is null, <<r>> is r
    groupName,        \* useState('')
    dragging,         \* the drag library's session: the id being dragged, or Null
    clock,            \* the last value Date.now() returned to the widget
    lastEvent,        \* the event handled last: <<handler, argument, argument>>
    groupRowDragged   \* whether a drag of a grouped row was ever reported

vars == <<items, groupedItems, activeId, showGroupDialog, showNameDialog,
          itemToGroup, groupName, dragging, clock, lastEvent,
          groupRowDragged>>

\* ---------------------------------------------------------------- bounds
\* Date.now() values run over 1..MaxClock, which bounds the group creations
\* of one run.
MaxClock == 3

\* ------------------------------------------------------------ data model
Null == "null"

NoRequest == <<>>

\* useState<GroupedItems>({})
NoGroups == [k \in {} |-> <<>>]

\* The texts typed into the name field.
Names == {"", "G1"}

SeedItems ==
    << [id |-> "1", content |-> "Item 1"],
       [id |-> "2", content |-> "Item 2"],
       [id |-> "3", content |-> "Item 3"],
       [id |-> "4", content |-> "Item 4"] >>

Range(s) == {s[i] : i \in 1..Len(s)}

Ids(s) == [i \in 1..Len(s) |-> s[i].id]

\* the id made from a clock value of half the resolution
NewGroupIdCoarse(t) == "group-" \o ToString(t \div 2)

\* `group-${Date.now()}`
NewGroupId(t) == "group-" \o ToString(t)

\* the label without the "Item " prefix
RegeneratedLabelBare(itemId) == itemId

\* `Item ${itemId}`
RegeneratedLabel(itemId) == "Item " \o itemId

\* Object.values(groupedItems).flat()
AllMembers == UNION {Range(groupedItems[k]) : k \in DOMAIN groupedItems}

\* items.filter(item => !Object.values(groupedItems).flat().includes(item.id))
visibleItems == SelectSeq(items, LAMBDA item : item.id \notin AllMembers)

VisibleIds == Range(Ids(visibleItems))

\* the text of a nested member row: subItem ? subItem.content : subItemId
subItemText(subItemId) ==
    IF \E i \in 1..Len(items) : items[i].id = subItemId
    THEN items[CHOOSE i \in 1..Len(items) :
                   items[i].id = subItemId
                   /\ \A j \in 1..(i - 1) : items[j].id # subItemId].content
    ELSE subItemId

\* isGrouped={!!groupedItems[item.id]}
isGrouped(id) == id \in DOMAIN groupedItems

\* useSortable({ id, disabled: isGrouped }): a grouped row has no drag
\* listeners, it is a drop target only.
DraggableIds == {id \in VisibleIds : ~isGrouped(id)}

\* items.findIndex(item => item.id === id), 0-based, -1 when absent
findIndex(s, id) ==
    IF \E i \in 1..Len(s) : s[i].id = id
    THEN (CHOOSE i \in 1..Len(s) :
              s[i].id = id /\ \A j \in 1..(i - 1) : s[j].id # id) - 1
    ELSE -1

\* array.splice(at, 1) on a copy: the sequence without the element at
\* 0-based index at (a negative index counts from the end)
RemoveAt(s, at) ==
    LET n == Len(s)
        k == IF at < 0 THEN (IF n + at < 0 THEN 0 ELSE n + at) ELSE at
    IN  IF k >= n THEN s
        ELSE SubSeq(s, 1, k) \o SubSeq(s, k + 2, n)

\* array.splice(at, 0, e): e inserted before 0-based index at
InsertAt(s, at, e) ==
    LET n == Len(s)
        k == IF at < 0 THEN (IF n + at < 0 THEN 0 ELSE n + at)
             ELSE IF at > n THEN n ELSE at
    IN  SubSeq(s, 1, k) \o <<e>> \o SubSeq(s, k + 1, n)

\* arrayMove(array, from, to): remove at from, insert at to
arrayMove(s, from, to) ==
    LET n == Len(s)
        f == IF from < 0 THEN (IF n + from < 0 THEN 0 ELSE n + from) ELSE from
    IN  IF n = 0 \/ f >= n THEN s
        ELSE InsertAt(RemoveAt(s, from), IF to < 0 THEN n + to ELSE to, s[f + 1])

NoDialogOpen == ~showGroupDialog /\ ~showNameDialog

\* ------------------------------------------------------------------ Init
Init ==
    /\ items = SeedItems
    /\ groupedItems = NoGroups
    /\ activeId = Null
    /\ showGroupDialog = FALSE
    /\ showNameDialog = FALSE
    /\ itemToGroup = NoRequest
    /\ groupName = ""
    /\ dragging = Null
    /\ clock = 0
    /\ lastEvent = <<"init", Null, Null>>
    /\ groupRowDragged = FALSE

\* --------------------------------------------------------------- actions
handleDragStart(active) ==
    /\ NoDialogOpen
    /\ dragging = Null
    /\ dragging' = active
    /\ activeId' = active
    /\ lastEvent' = <<"dragStart", active, Null>>
    /\ groupRowDragged' = (groupRowDragged \/ isGrouped(active))
    /\ UNCHANGED <<items, groupedItems, showGroupDialog, showNameDialog,
                   itemToGroup, groupName, clock>>

\* the drop that leaves the dragged item in the list
dropOntoGroupKeepsItem(active, over) ==
    /\ groupedItems' =
           [groupedItems EXCEPT ![over] = Append(groupedItems[over], active)]
    /\ UNCHANGED <<items, itemToGroup, showGroupDialog>>

\* the drop with the dragged id put in front of the members
dropOntoGroupPrepends(active, over) ==
    /\ groupedItems' =
           [groupedItems EXCEPT ![over] = <<active>> \o groupedItems[over]]
    /\ items' = SelectSeq(items, LAMBDA item : item.id # active)
    /\ UNCHANGED <<itemToGroup, showGroupDialog>>

\* "If dropping onto an existing group"
dropOntoGroup(active, over) ==
    /\ groupedItems' =
           [groupedItems EXCEPT ![over] = Append(groupedItems[over], active)]
    /\ items' = SelectSeq(items, LAMBDA item : item.id # active)
    /\ UNCHANGED <<itemToGroup, showGroupDialog>>

\* the request that also moves the dragged item to the target's index
askToGroupAndMove(active, over) ==
    /\ itemToGroup' = <<[dragged |-> active, target |-> over]>>
    /\ showGroupDialog' = TRUE
    /\ items' = arrayMove(items, findIndex(items, active),
                          findIndex(items, over))
    /\ UNCHANGED groupedItems

\* "If dragging a non-grouped item onto another non-grouped item"
askToGroup(active, over) ==
    /\ itemToGroup' = <<[dragged |-> active, target |-> over]>>
    /\ showGroupDialog' = TRUE
    /\ UNCHANGED <<items, groupedItems>>

\* the move that removes the dragged item and does not insert it again
reorderDropsItem(active, over) ==
    /\ items' = RemoveAt(items, findIndex(items, active))
    /\ UNCHANGED <<groupedItems, itemToGroup, showGroupDialog>>

\* the move that takes the destination index one too far
reorderOffByOne(active, over) ==
    /\ items' = arrayMove(items, findIndex(items, active),
                          findIndex(items, over) + 1)
    /\ UNCHANGED <<groupedItems, itemToGroup, showGroupDialog>>

\* "Reordering non-grouped items"
reorder(active, over) ==
    /\ items' = arrayMove(items, findIndex(items, active),
                          findIndex(items, over))
    /\ UNCHANGED <<groupedItems, itemToGroup, showGroupDialog>>

\* the handler without the test that the drop target is another row
handleDragEndNoSelfTest(active, over) ==
    /\ dragging # Null
    /\ dragging = active
    /\ dragging' = Null
    /\ lastEvent' = <<"dragEnd", active, over>>
    /\ IF over = Null
       THEN UNCHANGED <<items, groupedItems, activeId, showGroupDialog,
                        itemToGroup>>
       ELSE /\ IF isGrouped(over)
               THEN dropOntoGroup(active, over)
               ELSE askToGroup(active, over)
            /\ activeId' = Null
    /\ UNCHANGED <<showNameDialog, groupName, clock, groupRowDragged>>

handleDragEnd(active, over) ==
    /\ dragging # Null
    /\ dragging = active
    /\ dragging' = Null
    /\ lastEvent' = <<"dragEnd", active, over>>
    /\ IF over = Null
       THEN UNCHANGED <<items, groupedItems, activeId, showGroupDialog,
                        itemToGroup>>
       ELSE /\ IF active # over
               THEN IF isGrouped(over)
                    THEN dropOntoGroup(active, over)
                    ELSE askToGroup(active, over)
               ELSE reorder(active, over)
            /\ activeId' = Null
    /\ UNCHANGED <<showNameDialog, groupName, clock, groupRowDragged>>

\* the accept that also discards the request
handleGroupDiscardsRequest(action) ==
    /\ showGroupDialog
    /\ ~showNameDialog
    /\ IF action = "group"
       THEN /\ showNameDialog' = TRUE
            /\ UNCHANGED showGroupDialog
       ELSE /\ showGroupDialog' = FALSE
            /\ UNCHANGED showNameDialog
    /\ itemToGroup' = NoRequest
    /\ lastEvent' = <<"handleGroup", action, Null>>
    /\ UNCHANGED <<items, groupedItems, activeId, groupName, dragging, clock,
                   groupRowDragged>>

\* the buttons of the confirmation dialog; the name dialog, once open, is
\* the modal layer on top of it
handleGroup(action) ==
    /\ showGroupDialog
    /\ ~showNameDialog
    /\ IF action = "group"
       THEN /\ showNameDialog' = TRUE
            /\ UNCHANGED <<showGroupDialog, itemToGroup>>
       ELSE /\ showGroupDialog' = FALSE
            /\ itemToGroup' = NoRequest
            /\ UNCHANGED showNameDialog
    /\ lastEvent' = <<"handleGroup", action, Null>>
    /\ UNCHANGED <<items, groupedItems, activeId, groupName, dragging, clock,
                   groupRowDragged>>

\* onOpenChange={setShowGroupDialog}: the dialog asks to be closed
closeGroupDialog ==
    /\ showGroupDialog
    /\ showGroupDialog' = FALSE
    /\ lastEvent' = <<"closeGroupDialog", Null, Null>>
    /\ UNCHANGED <<items, groupedItems, activeId, showNameDialog,
                   itemToGroup, groupName, dragging, clock, groupRowDragged>>

\* onOpenChange={setShowNameDialog} and the Cancel button of the name dialog
closeNameDialog ==
    /\ showNameDialog
    /\ showNameDialog' = FALSE
    /\ lastEvent' = <<"closeNameDialog", Null, Null>>
    /\ UNCHANGED <<items, groupedItems, activeId, showGroupDialog,
                   itemToGroup, groupName, dragging, clock, groupRowDragged>>

\* onChange={(e) => setGroupName(e.target.value)}
setGroupName(value) ==
    /\ showNameDialog
    /\ groupName # value
    /\ groupName' = value
    /\ lastEvent' = <<"setGroupName", value, Null>>
    /\ UNCHANGED <<items, groupedItems, activeId, showGroupDialog,
                   showNameDialog, itemToGroup, dragging, clock,
                   groupRowDragged>>

\* the filter with the dragged item left in the list
withoutGroupedKeepsDragged(prevItems, request) ==
    SelectSeq(prevItems, LAMBDA item : item.id # request.target)

\* the filter with the target left in the list
withoutGroupedKeepsTarget(prevItems, request) ==
    SelectSeq(prevItems, LAMBDA item : item.id # request.dragged)

\* prevItems.filter((item) => ![dragged, target].includes(item.id))
withoutGrouped(prevItems, request) ==
    SelectSeq(prevItems,
           LAMBDA item : item.id \notin {request.dragged, request.target})

\* the list without the item of the new group
withGroupItemForgotten(prevItems, newGroupId) == prevItems

\* [...prevItems, { id: newGroupId, content: groupName }]
withGroupItem(prevItems, newGroupId) ==
    Append(prevItems, [id |-> newGroupId, content |-> groupName])

\* now is the value Date.now() returns
handleNameGroup(now) ==
    /\ showNameDialog
    /\ clock' = now
    /\ IF itemToGroup # NoRequest
       THEN LET newGroupId == NewGroupId(now)
            IN  /\ groupedItems' =
                       (newGroupId :> <<itemToGroup[1].dragged,
                                        itemToGroup[1].target>>) @@ groupedItems
                /\ items' = withGroupItem(
                                withoutGrouped(items, itemToGroup[1]),
                                newGroupId)
       ELSE UNCHANGED <<items, groupedItems>>
    /\ showNameDialog' = FALSE
    /\ showGroupDialog' = FALSE
    /\ itemToGroup' = NoRequest
    /\ groupName' = ""
    /\ lastEvent' = <<"handleNameGroup", Null, Null>>
    /\ UNCHANGED <<activeId, dragging, groupRowDragged>>

\* the ungroup that does not put the members back into the list
handleUngroupDropsMembers(id) ==
    /\ NoDialogOpen
    /\ dragging = Null
    /\ groupedItems' = [k \in DOMAIN groupedItems \ {id} |-> groupedItems[k]]
    /\ items' = SelectSeq(items, LAMBDA item : item.id # id)
    /\ lastEvent' = <<"handleUngroup", id, Null>>
    /\ UNCHANGED <<activeId, showGroupDialog, showNameDialog, itemToGroup,
                   groupName, dragging, clock, groupRowDragged>>

\* the ungroup with the group entry left in the map
handleUngroupKeepsEntry(id) ==
    /\ NoDialogOpen
    /\ dragging = Null
    /\ LET ungroupedItems == IF isGrouped(id) THEN groupedItems[id] ELSE <<>>
       IN  /\ groupedItems' = groupedItems
           /\ items' = SelectSeq(items, LAMBDA item : item.id # id) \o
                       [i \in 1..Len(ungroupedItems) |->
                           [id |-> ungroupedItems[i],
                            content |-> RegeneratedLabel(ungroupedItems[i])]]
    /\ lastEvent' = <<"handleUngroup", id, Null>>
    /\ UNCHANGED <<activeId, showGroupDialog, showNameDialog, itemToGroup,
                   groupName, dragging, clock, groupRowDragged>>

\* the Ungroup button of a grouped row
handleUngroup(id) ==
    /\ NoDialogOpen
    /\ dragging = Null
    /\ LET ungroupedItems == IF isGrouped(id) THEN groupedItems[id] ELSE <<>>
       IN  /\ groupedItems' =
                  [k \in DOMAIN groupedItems \ {id} |-> groupedItems[k]]
           /\ items' = SelectSeq(items, LAMBDA item : item.id # id) \o
                       [i \in 1..Len(ungroupedItems) |->
                           [id |-> ungroupedItems[i],
                            content |-> RegeneratedLabel(ungroupedItems[i])]]
    /\ lastEvent' = <<"handleUngroup", id, Null>>
    /\ UNCHANGED <<activeId, showGroupDialog, showNameDialog, itemToGroup,
                   groupName, dragging, clock, groupRowDragged>>

\* ------------------------------------------------------- specifications
\* The events the rendered widget can receive: only ungrouped rows can be
\* dragged, every visible row is a drop target, the Ungroup button exists
\* on visible grouped rows, and two group creations are at least a
\* millisecond apart.
DragStart == \E active \in DraggableIds : handleDragStart(active)

DragEnd == \E over \in VisibleIds \cup {Null} : handleDragEnd(dragging, over)

GroupDialogButton == \E action \in {"group", "cancel"} : handleGroup(action)

TypeName == \E value \in Names : setGroupName(value)

NameGroup == \E now \in (clock + 1)..MaxClock : handleNameGroup(now)

Ungroup == \E id \in {v \in VisibleIds : isGrouped(v)} : handleUngroup(id)

Next ==
    \/ DragStart
    \/ DragEnd
    \/ GroupDialogButton
    \/ closeGroupDialog
    \/ closeNameDialog
    \/ TypeName
    \/ NameGroup
    \/ Ungroup

Spec == Init /\ [][Next]_vars

\* The same handlers when the drag library reports a drag of any visible
\* row, grouped rows included.
DragStartAnyRow == \E active \in VisibleIds : handleDragStart(active)

NextAnyRow ==
    \/ DragStartAnyRow
    \/ DragEnd
    \/ GroupDialogButton
    \/ closeGroupDialog
    \/ closeNameDialog
    \/ TypeName
    \/ NameGroup
    \/ Ungroup

SpecAnyRow == Init /\ [][NextAnyRow]_vars

\* The same handlers with a clock that never goes backwards but may return
\* the same millisecond to two group creations.
NameGroupSameMs == \E now \in clock..MaxClock : handleNameGroup(now)

NextSameMs ==
    \/ DragStart
    \/ DragEnd
    \/ GroupDialogButton
    \/ closeGroupDialog
    \/ closeNameDialog
    \/ TypeName
    \/ NameGroupSameMs
    \/ Ungroup

SpecSameMs == Init /\ [][NextSameMs]_vars

\* ---------------------------------------------------------------- claims
ItemIds == Range(Ids(items))

\* the number of positions of seq s that hold e
Occurrences(s, e) == Cardinality({i \in 1..Len(s) : s[i] = e})

C2_DropIntoGroup ==
    [][ (/\ lastEvent'[1] = "dragEnd"
         /\ lastEvent'[3] \in DOMAIN groupedItems
         /\ lastEvent'[2] # lastEvent'[3]) =>
            LET X == lastEvent'[2]
                K == lastEvent'[3]
            IN  /\ UNCHANGED <<itemToGroup, showGroupDialog, showNameDialog>>
                /\ ~showGroupDialog' /\ ~showNameDialog'
                /\ X \in VisibleIds
                /\ X \notin ItemIds'
                /\ X \notin VisibleIds'
                /\ items' = SelectSeq(items, LAMBDA it : it.id # X)
                /\ DOMAIN groupedItems' = DOMAIN groupedItems
                /\ Len(groupedItems'[K]) = Len(groupedItems[K]) + 1
                /\ groupedItems'[K][Len(groupedItems'[K])] = X
                /\ SubSeq(groupedItems'[K], 1, Len(groupedItems[K])) =
                       groupedItems[K]
                /\ \A k \in DOMAIN groupedItems \ {K} :
                       groupedItems'[k] = groupedItems[k]
                /\ {k \in DOMAIN groupedItems' : X \in Range(groupedItems'[k])} = {K}
                /\ Occurrences(groupedItems'[K], X) = 1
      ]_vars

\* C2 scenario: with the list [2, 4, G1] and G1 = [1, 3], 2 dragged onto G1
\* gives the list [4, G1] and G1 = [1, 3, 2].
C2_Witness ==
    /\ lastEvent = <<"dragEnd", "2", "group-1">>
    /\ DOMAIN groupedItems = {"group-1"}
    /\ groupedItems["group-1"] = <<"1", "3", "2">>
    /\ Ids(items) = <<"4", "group-1">>
    /\ Ids(visibleItems) = <<"4", "group-1">>

\* C3: ungroup of G with members M removes the key G and the item G, puts
\* one item [id m, content "Item m"] per member m of M, in M's order, after
\* the remaining items, leaves the other items and groups alone; the visible
\* ids are then the former ones without G, with the members of M.
C3_Ungroup ==
    [][ (lastEvent'[1] = "handleUngroup") =>
            LET G == lastEvent'[2]
                M == groupedItems[G]
                rest == SelectSeq(items, LAMBDA it : it.id # G)
            IN  /\ G \in DOMAIN groupedItems
                /\ G \notin DOMAIN groupedItems'
                /\ G \notin ItemIds'
                /\ Len(items') = Len(rest) + Len(M)
                /\ Len(rest) = Len(items) - 1
                /\ SubSeq(items', 1, Len(rest)) = rest
                /\ \A i \in 1..Len(M) :
                       items'[Len(rest) + i] =
                           [id |-> M[i], content |-> "Item " \o M[i]]
                /\ \A m \in Range(M) : Occurrences(Ids(visibleItems'), m) = 1
                /\ visibleItems' = items'
                /\ Len(visibleItems') = Len(visibleItems) - 1 + Len(M)
                /\ VisibleIds' = (VisibleIds \ {G}) \cup Range(M)
                /\ DOMAIN groupedItems' = DOMAIN groupedItems \ {G}
                /\ \A k \in DOMAIN groupedItems' :
                       groupedItems'[k] = groupedItems[k]
      ]_vars

\* C3 scenario: ungroup of G1 = [1, 3, 2] in the list [4, G1] gives the list
\* [4, 1, 3, 2] and no group.
C3_Witness ==
    /\ lastEvent = <<"handleUngroup", "group-1", Null>>
    /\ groupedItems = NoGroups
    /\ items = << [id |-> "4", content |-> "Item 4"],
                  [id |-> "1", content |-> "Item 1"],
                  [id |-> "3", content |-> "Item 3"],
                  [id |-> "2", content |-> "Item 2"] >>

SeedIds == Range(Ids(SeedItems))

SeedItem(id) == CHOOSE it \in Range(SeedItems) : it.id = id

\* C4 as stated: every seed item that ungroup returns to the list has a
\* content that differs from its original (seed) content.
C4_UngroupLosesContent ==
    [][ (lastEvent'[1] = "handleUngroup") =>
            \A i \in 1..Len(items') :
                (/\ items'[i].id \in Range(groupedItems[lastEvent'[2]])
                 /\ items'[i].id \in SeedIds) =>
                    items'[i].content # SeedItem(items'[i].id).content
      ]_vars

\* C4 amended: only seed items are ever members of a group, and every seed
\* item in the item list, those returned by ungroup included, has its
\* original content: the regenerated label "Item <id>" is the seed content.
C4_UngroupKeepsSeedContent ==
    /\ AllMembers \subseteq SeedIds
    /\ \A i \in 1..Len(items) :
           items[i].id \in SeedIds => items[i] = SeedItem(items[i].id)

\* C4 case: item 2 was created into a group, item 3 dropped into it, and the
\* group was ungrouped.
C4_Witness ==
    /\ lastEvent[1] = "handleUngroup"
    /\ groupedItems = NoGroups
    /\ Ids(items) = <<"4", "1", "2", "3">>

\* C5 as stated: a drag-end of X over a different visible id K that is not a
\* group key moves X to K's index in the item list.
C5_DropOnItemReorders ==
    [][ (/\ lastEvent'[1] = "dragEnd"
         /\ lastEvent'[3] # Null
         /\ lastEvent'[3] # lastEvent'[2]
         /\ lastEvent'[3] \notin DOMAIN groupedItems) =>
            items' = arrayMove(items, findIndex(items, lastEvent'[2]),
                               findIndex(items, lastEvent'[3]))
      ]_vars

\* C6: a drag-end of a visible id over a different visible id that is not a
\* group key, an accept and a decline leave the item list and the group map
\* unchanged; so does every other event handled while a dialog is open
\* except name-and-create, which closes both dialogs, so at a decline both
\* still have their values from before the drag-end that opened the dialog.
C6_DialogFlowMutatesNothing ==
    [][ (\/ /\ lastEvent'[1] = "dragEnd"
            /\ lastEvent'[3] # Null
            /\ lastEvent'[3] # lastEvent'[2]
            /\ lastEvent'[3] \notin DOMAIN groupedItems
         \/ lastEvent'[1] = "handleGroup"
         \/ /\ showGroupDialog \/ showNameDialog
            /\ lastEvent'[1] # "handleNameGroup") =>
            /\ UNCHANGED <<items, groupedItems>>
            /\ (lastEvent'[1] = "handleGroup") => showGroupDialog
      ]_vars

\* C6 case: with a group present, a request was declined.
C6_Witness ==
    /\ lastEvent = <<"handleGroup", "cancel", Null>>
    /\ DOMAIN groupedItems # {}
    /\ ~showGroupDialog
    /\ itemToGroup = NoRequest

C9_ActiveIdOnlyWhileDragging ==
    /\ (lastEvent[1] = "dragStart") => activeId = lastEvent[2]
    /\ (lastEvent[1] = "dragEnd") => activeId = Null
    /\ (activeId # Null) => dragging # Null

\* C10 as stated: after a decline, a close of either dialog or a
\* name-and-create, and in every state where no dialog is open, the pending
\* request is absent; after such a resolution both dialogs are closed.
C10_RequestOnlyWhileDialogOpen ==
    /\ NoDialogOpen => itemToGroup = NoRequest
    /\ (\/ lastEvent = <<"handleGroup", "cancel", Null>>
        \/ lastEvent[1] \in {"closeGroupDialog", "closeNameDialog",
                             "handleNameGroup"}) =>
           (NoDialogOpen /\ itemToGroup = NoRequest)

\* C11: a key is added to the group map only by a name-and-create step
\* taken with the name dialog open; the name dialog is opened only by the
\* accept of the open confirmation dialog; the confirmation dialog is opened
\* only by a drag-end of a visible id over a different visible id that is
\* not a group key; and an open dialog implies a pending request.
C11_GroupingFlowOrder ==
    /\ [](showGroupDialog \/ showNameDialog => itemToGroup # NoRequest)
    /\ [][ /\ ~(DOMAIN groupedItems' \subseteq DOMAIN groupedItems) =>
                /\ lastEvent'[1] = "handleNameGroup"
                /\ showNameDialog
                /\ itemToGroup # NoRequest
           /\ (~showNameDialog /\ showNameDialog') =>
                /\ lastEvent' = <<"handleGroup", "group", Null>>
                /\ showGroupDialog
           /\ (~showGroupDialog /\ showGroupDialog') =>
                /\ lastEvent'[1] = "dragEnd"
                /\ lastEvent'[2] \in VisibleIds
                /\ lastEvent'[3] \in VisibleIds
                /\ lastEvent'[3] # lastEvent'[2]
                /\ lastEvent'[3] \notin DOMAIN groupedItems
                /\ itemToGroup' = <<[dragged |-> lastEvent'[2],
                                     target |-> lastEvent'[3]]>>
      ]_vars

\* C11 case: a second group was created through drag-end, accept and name.
C11_Witness ==
    /\ lastEvent[1] = "handleNameGroup"
    /\ Cardinality(DOMAIN groupedItems) = 2
    /\ NoDialogOpen

\* C12: a drag-end with no drop target, and a drag-end over the dragged id
\* itself, leave the item list (order included), the group map, the pending
\* request and both dialog flags unchanged.
C12_SilentNoOps ==
    [][ (/\ lastEvent'[1] = "dragEnd"
         /\ lastEvent'[3] \in {Null, lastEvent'[2]}) =>
            UNCHANGED <<items, groupedItems, itemToGroup, showGroupDialog,
                        showNameDialog>>
      ]_vars

\* C12 case: with a group present, a row that is not last was dropped on
\* itself.
C12_Witness ==
    /\ lastEvent[1] = "dragEnd"
    /\ lastEvent[3] = lastEvent[2]
    /\ DOMAIN groupedItems # {}
    /\ Len(items) >= 2
    /\ items[1].id = lastEvent[2]

\* C12 case: a row was dropped outside every drop target.
C12_WitnessNoTarget ==
    /\ lastEvent[1] = "dragEnd"
    /\ lastEvent[3] = Null
    /\ DOMAIN groupedItems # {}

\* C13: a drag-end that neither drops into a group nor opens the
\* confirmation dialog (the reorder branch) leaves the multiset of visible
\* ids, the multiset of item ids and the group map unchanged; so does any
\* sequence of such steps.
C13_ReorderKeepsMultiset ==
    [][ (/\ lastEvent'[1] = "dragEnd"
         /\ lastEvent'[3] # Null
         /\ ~(lastEvent'[3] # lastEvent'[2]
                /\ lastEvent'[3] \in DOMAIN groupedItems)
         /\ ~(~showGroupDialog /\ showGroupDialog')) =>
            /\ \A id \in VisibleIds \cup VisibleIds' :
                   Occurrences(Ids(visibleItems'), id) =
                       Occurrences(Ids(visibleItems), id)
            /\ \A id \in ItemIds \cup ItemIds' :
                   Occurrences(Ids(items'), id) = Occurrences(Ids(items), id)
            /\ groupedItems' = groupedItems
      ]_vars

\* C13 case: the reorder branch ran on the last of three visible rows, one
\* of them a group.
C13_Witness ==
    /\ lastEvent[1] = "dragEnd"
    /\ lastEvent[3] = lastEvent[2]
    /\ Cardinality(DOMAIN groupedItems) = 1
    /\ Len(visibleItems) = 3
    /\ visibleItems[2].id = lastEvent[2]

MemberOccurrences(e) ==
    Cardinality(UNION {{<<k, i>> : i \in {j \in 1..Len(groupedItems[k]) :
                                              groupedItems[k][j] = e}} :
                       k \in DOMAIN groupedItems})

C16_NameFieldEmptyOnOpen ==
    (lastEvent = <<"handleGroup", "group", Null>>) =>
        (showNameDialog /\ groupName = "")

\* C17: the item list holds no id that is a member of a group, so the
\* visible list equals the item list and every nested member row shows the
\* raw member id.
C17_ItemListHoldsNoMember ==
    /\ ItemIds \cap AllMembers = {}
    /\ visibleItems = items
    /\ \A k \in DOMAIN groupedItems :
           \A i \in 1..Len(groupedItems[k]) :
               subItemText(groupedItems[k][i]) = groupedItems[k][i]

\* C17 case: all four seed items are members of two groups and the list
\* holds the two group rows.
C17_Witness ==
    /\ Cardinality(AllMembers) = 4
    /\ Cardinality(DOMAIN groupedItems) = 2
    /\ Len(visibleItems) = 2
    /\ subItemText("1") = "1"

\* C18: every group has at least two members, pairwise distinct; a group
\* appears only by name-and-create, with two different members, changes only
\* by a drag-end that appends a visible id that is not yet a member, and
\* disappears only by its own ungroup.
C18_GroupsHaveTwoDistinctMembers ==
    /\ [](\A k \in DOMAIN groupedItems :
              /\ Len(groupedItems[k]) >= 2
              /\ \A i, j \in 1..Len(groupedItems[k]) :
                     i # j => groupedItems[k][i] # groupedItems[k][j])
    /\ [][ \A k \in DOMAIN groupedItems \cup DOMAIN groupedItems' :
             \/ /\ k \in DOMAIN groupedItems \cap DOMAIN groupedItems'
                /\ groupedItems'[k] = groupedItems[k]
             \/ /\ k \in DOMAIN groupedItems \cap DOMAIN groupedItems'
                /\ lastEvent'[1] = "dragEnd"
                /\ lastEvent'[3] = k
                /\ lastEvent'[2] \in VisibleIds \ Range(groupedItems[k])
                /\ groupedItems'[k] = Append(groupedItems[k], lastEvent'[2])
             \/ /\ k \notin DOMAIN groupedItems
                /\ lastEvent'[1] = "handleNameGroup"
                /\ Len(groupedItems'[k]) = 2
                /\ groupedItems'[k][1] # groupedItems'[k][2]
             \/ /\ k \notin DOMAIN groupedItems'
                /\ lastEvent' = <<"handleUngroup", k, Null>>
      ]_vars

\* C18 case: a group created with two members has grown to four.
C18_Witness ==
    /\ lastEvent[1] = "dragEnd"
    /\ \E k \in DOMAIN groupedItems : Len(groupedItems[k]) = 4

====
